---- MODULE Spec2Model ----
(***************************************************************************)
(* Model of custom_components/xiaomi_miio_opple_light/light.py: the        *)
(* OppleLight entity (cached power / brightness / colour temperature, the  *)
(* polling callback, the turn_on / turn_off command handlers and the       *)
(* host-facing properties) and its two numeric translations.               *)
(*                                                                         *)
(* Python values are records [type, val]: None, bool (an int subclass, so  *)
(* val is 0 or 1), int and str (contents abstracted).  A keyword argument  *)
(* that is not passed has type "absent".                                   *)
(*                                                                         *)
(* Arithmetic: the source computes ceil(a*b/c + d) and floor(1000000/n)    *)
(* with Python's true division on floats.  For the magnitudes modelled     *)
(* here (|values| < 2^31) a non-integral quotient is at least 1/|c| away   *)
(* from an integer, far more than a double's rounding error, and an        *)
(* integral quotient is computed exactly, so ceil / floor of the float     *)
(* equal ceil / floor of the exact rational; the model uses the latter.    *)
(***************************************************************************)
EXTENDS Integers, Sequences, FiniteSets, TLC

VARIABLES
    _min_brightness, _max_brightness,                 \* configuration
    _min_color_temperature, _max_color_temperature,
    _state, _brightness, _color_temp,                 \* cached device state
    timer,      \* _remove_update_interval: "none", "active" or "cancelled"
    op,         \* the operation that produced this state
    kwargs,     \* the arguments of that operation
    sent,       \* device commands issued by that operation, in order
    replies,    \* the device's reply to each of them
    raised,     \* an exception escaped that operation
    result,     \* the value (or exception) of the property read, if one
    polled      \* some poll has stored a complete SyncBaseInfo reply

vars == << _min_brightness, _max_brightness, _min_color_temperature,
           _max_color_temperature, _state, _brightness, _color_temp, timer,
           op, kwargs, sent, replies, raised, result, polled >>

config == << _min_brightness, _max_brightness, _min_color_temperature,
             _max_color_temperature >>

cached == << _state, _brightness, _color_temp >>

-----------------------------------------------------------------------------
(* Python values *)

PyNone == [type |-> "NoneType", val |-> 0]

PyBool(b) == [type |-> "bool", val |-> IF b THEN 1 ELSE 0]

PyInt(n) == [type |-> "int", val |-> n]

PyStr == [type |-> "str", val |-> 0]

Absent == [type |-> "absent", val |-> 0]

IsNumber(x) == x.type \in {"int", "bool"}

\* Python truth value, as used by `if x:` / `if not x:`.
Truthy(x) == IF IsNumber(x) THEN x.val # 0 ELSE x.type = "str"

\* math.ceil(n / d) and math.floor(n / d) for integers n, d with d # 0.
CeilDiv(n, d) == IF d > 0 THEN -((-n) \div d) ELSE -(n \div (-d))

FloorDiv(n, d) == IF d > 0 THEN n \div d ELSE (-n) \div (-d)

\* The value of an expression: either val, or the exception it raised.
Value(v) == [exc |-> "", val |-> v]

Raises(e) == [exc |-> e, val |-> 0]

NoResult == [exc |-> "unread", val |-> 0]

-----------------------------------------------------------------------------
(* Program constants *)

HostMinBrightness == 1

HostMaxBrightness == 255

DefaultMired == 153

Million == 1000000

DefaultMinBrightness == 7

DefaultMaxBrightness == 100

DefaultMinColorTemperature == 3000

DefaultMaxColorTemperature == 5700

-----------------------------------------------------------------------------
(* The range translator *)

\* async_turn_on, line 178: host brightness -> device percent.
\* ceil((brightness - 1) * (max - min) / (255 - 1) + min)
PercentBrightnessNoOffset(b, min_b, max_b) ==
    CeilDiv((b - HostMinBrightness) * (max_b - min_b),
            HostMaxBrightness - HostMinBrightness)

PercentBrightnessFloor(b, min_b, max_b) ==
    FloorDiv((b - HostMinBrightness) * (max_b - min_b)
                + min_b * (HostMaxBrightness - HostMinBrightness),
             HostMaxBrightness - HostMinBrightness)

PercentBrightness(b, min_b, max_b) ==
    CeilDiv((b - HostMinBrightness) * (max_b - min_b)
                + min_b * (HostMaxBrightness - HostMinBrightness),
            HostMaxBrightness - HostMinBrightness)

\* The brightness property, line 227: device value -> host brightness.
\* ceil((_brightness - min) * (255 - 1) / (max - min) + 1)
\* None - int raises TypeError before the division is reached.
BrightnessOf(b, min_b, max_b) ==
    IF ~IsNumber(b) THEN Raises("TypeError")
    ELSE IF max_b - min_b = 0 THEN Raises("ZeroDivisionError")
    ELSE Value(CeilDiv((b.val - min_b) * (HostMaxBrightness - HostMinBrightness)
                          + HostMinBrightness * (max_b - min_b),
                       max_b - min_b))

\* translate_mired, lines 241-246.
translate_mired_ceil(num) ==
    IF IsNumber(num) /\ num.val # 0 THEN CeilDiv(Million, num.val)
    ELSE DefaultMired

translate_mired(num) ==
    IF ~IsNumber(num) THEN DefaultMired                 \* TypeError
    ELSE IF num.val = 0 THEN DefaultMired               \* ZeroDivisionError
    ELSE FloorDiv(Million, num.val)

\* The min_mireds / max_mireds properties, lines 233-239.
min_mireds_unswapped(min_ct, max_ct) == translate_mired(PyInt(min_ct))

min_mireds(min_ct, max_ct) == translate_mired(PyInt(max_ct))

max_mireds(min_ct, max_ct) == translate_mired(PyInt(min_ct))

-----------------------------------------------------------------------------
(* The device, as seen through Device.raw_command *)

Command(method, params) == [method |-> method, params |-> params]

Reply(res) == [raises |-> FALSE, res |-> res]

DeviceError == [raises |-> TRUE, res |-> <<>>]

\* Replies to SetState / SetBrightness / SetColorTemperature: a status list
\* or a DeviceException.
CommandReplies == {Reply(<<"ok">>), Reply(<<"error">>), DeviceError}

\* The replies to choose among for a command that may be sent; a command that
\* is not sent has no reply, and one choice stands for all.
RepliesIf(is_sent) == IF is_sent THEN CommandReplies ELSE {DeviceError}

\* Values a well-behaved device reports for the configured ranges.
DevicePower == {PyBool(TRUE), PyBool(FALSE)}

DeviceBrightness == {PyInt(_min_brightness), PyInt(_max_brightness)}

DeviceColor == {PyInt(_min_color_temperature), PyInt(_max_color_temperature)}

\* Replies to SyncBaseInfo: [power, color_raw, brightness_raw, ...], possibly
\* truncated, or a DeviceException.
FullBaseInfo ==
    {<<p, c, b>> : p \in DevicePower, c \in DeviceColor, b \in DeviceBrightness}

BaseInfoReplies ==
    {Reply(r) : r \in FullBaseInfo}
        \cup {Reply(Append(r, PyInt(0))) : r \in FullBaseInfo}
        \cup {Reply(SubSeq(r, 1, n)) : r \in FullBaseInfo, n \in 0..2}
        \cup {DeviceError}

-----------------------------------------------------------------------------
(* Arguments the host passes *)

NoArgs == [brightness |-> Absent, color_temp |-> Absent]

HostBrightnessSamples == {1, 255}

HostMiredSamples == {0, 200}

TurnOnArgs ==
    [brightness : {Absent} \cup {PyInt(h) : h \in HostBrightnessSamples},
     color_temp : {Absent} \cup {PyInt(m) : m \in HostMiredSamples}]

-----------------------------------------------------------------------------
(* Configurations accepted by PLATFORM_SCHEMA (lines 53-63): four          *)
(* independent positive_int options, no relation between them is checked.  *)

Config(min_b, max_b, min_ct, max_ct) == <<min_b, max_b, min_ct, max_ct>>

DefaultConfig ==
    Config(DefaultMinBrightness, DefaultMaxBrightness,
           DefaultMinColorTemperature, DefaultMaxColorTemperature)

Configs ==
    {DefaultConfig, Config(50, 50, 2700, 6500)}

-----------------------------------------------------------------------------
(* OppleLight *)

\* __init__, lines 91-130 (the device answered info()).
Constructed(cfg) ==
    /\ _min_brightness = cfg[1]
    /\ _max_brightness = cfg[2]
    /\ _min_color_temperature = cfg[3]
    /\ _max_color_temperature = cfg[4]
    /\ _state = PyNone
    /\ _brightness = PyNone
    /\ _color_temp = PyNone
    /\ timer = "none"
    /\ raised = FALSE
    /\ result = NoResult
    /\ polled = FALSE

Init ==
    /\ \E cfg \in Configs : Constructed(cfg)
    /\ op = "__init__"
    /\ kwargs = NoArgs
    /\ sent = <<>>
    /\ replies = <<>>

\* change_state, lines 158-168: True on "ok", False on any other status,
\* None when raw_command (or res[0]) raised; the exception is swallowed.
change_state_no_status_check(reply) ==
    IF reply.raises \/ Len(reply.res) = 0
    THEN [result |-> PyNone, raised |-> FALSE]
    ELSE [result |-> PyBool(TRUE), raised |-> FALSE]

change_state(reply) ==
    IF reply.raises THEN [result |-> PyNone, raised |-> FALSE]
    ELSE IF Len(reply.res) = 0 THEN [result |-> PyNone, raised |-> FALSE]
    ELSE IF reply.res[1] # "ok" THEN [result |-> PyBool(FALSE), raised |-> FALSE]
    ELSE [result |-> PyBool(TRUE), raised |-> FALSE]

\* One `result = await self.change_state(method, [param])` of a handler whose
\* earlier calls are summarised in acc.
Issue(acc, method, param, reply) ==
    LET r == change_state(reply)
    IN  [sent |-> Append(acc.sent, Command(method, <<param>>)),
         replies |-> Append(acc.replies, reply),
         raised |-> r.raised,
         result |-> r.result]

NothingIssued ==
    [sent |-> <<>>, replies |-> <<>>, raised |-> FALSE, result |-> PyNone]

\* The guards of async_turn_on (line 171) and async_turn_off (line 195).
TurnOnSendsSetState(state) == ~Truthy(state)

TurnOffSendsSetState(state) == Truthy(state)

\* Lines 176 and 184: supported_features is the constant
\* SUPPORT_BRIGHTNESS | SUPPORT_COLOR_TEMP, so only the kwargs decide.
SendsOnlyAfterSuccess(previous, arg) ==
    arg.type # "absent" /\ (previous.sent = <<>> \/ Truthy(previous.result))

SendsNext(previous, arg) == arg.type # "absent"

\* Line 182: what a successful SetBrightness caches.
StoredBrightness(brightness, percent_brightness) == brightness

\* async_turn_on, lines 170-192.
async_turn_on(kw, r1, r2, r3) ==
    LET a0  == NothingIssued
        do1 == TurnOnSendsSetState(_state)
        a1  == IF do1 THEN Issue(a0, "SetState", PyBool(TRUE), r1) ELSE a0
        ok1 == do1 /\ ~a1.raised /\ Truthy(a1.result)
        do2 == ~a1.raised /\ SendsNext(a1, kw.brightness)
        percent_brightness ==
            PercentBrightness(kw.brightness.val, _min_brightness, _max_brightness)
        a2  == IF do2 THEN Issue(a1, "SetBrightness", PyInt(percent_brightness), r2)
               ELSE a1
        ok2 == do2 /\ ~a2.raised /\ Truthy(a2.result)
        do3 == ~a2.raised /\ SendsNext(a2, kw.color_temp)
        color_temp == translate_mired(kw.color_temp)
        a3  == IF do3 THEN Issue(a2, "SetColorTemperature", PyInt(color_temp), r3)
               ELSE a2
        ok3 == do3 /\ ~a3.raised /\ Truthy(a3.result)
    IN  /\ timer = "active"
        /\ _state' = IF ok1 THEN PyBool(TRUE) ELSE _state
        /\ _brightness' =
              IF ok2 THEN StoredBrightness(kw.brightness, PyInt(percent_brightness))
              ELSE _brightness
        /\ _color_temp' = IF ok3 THEN PyInt(color_temp) ELSE _color_temp
        /\ op' = "async_turn_on"
        /\ kwargs' = kw
        /\ sent' = a3.sent
        /\ replies' = a3.replies
        /\ raised' = a3.raised
        /\ result' = NoResult
        /\ UNCHANGED <<config, timer, polled>>

\* async_turn_off, lines 194-200.
async_turn_off(r1) ==
    LET do1 == TurnOffSendsSetState(_state)
        a1  == IF do1 THEN Issue(NothingIssued, "SetState", PyBool(FALSE), r1)
               ELSE NothingIssued
        ok1 == do1 /\ ~a1.raised /\ Truthy(a1.result)
    IN  /\ timer = "active"
        /\ _state' = IF ok1 THEN PyBool(FALSE) ELSE _state
        /\ op' = "async_turn_off"
        /\ kwargs' = NoArgs
        /\ sent' = a1.sent
        /\ replies' = a1.replies
        /\ raised' = a1.raised
        /\ result' = NoResult
        /\ UNCHANGED <<config, _brightness, _color_temp, timer, polled>>

\* async_update, lines 148-156: the three assignments run in source order
\* (BaseInfo[0], BaseInfo[2], BaseInfo[1]) until one of them raises; the
\* exception is swallowed.
Stored(BaseInfo) ==
    IF BaseInfo.raises THEN 0
    ELSE IF Len(BaseInfo.res) < 1 THEN 0
    ELSE IF Len(BaseInfo.res) < 3 THEN 1
    ELSE 3

Update(name, BaseInfo) ==
    /\ _state' = IF Stored(BaseInfo) >= 1 THEN BaseInfo.res[1] ELSE _state
    /\ _brightness' = IF Stored(BaseInfo) >= 2 THEN BaseInfo.res[3] ELSE _brightness
    /\ _color_temp' = IF Stored(BaseInfo) >= 3 THEN BaseInfo.res[2] ELSE _color_temp
    /\ polled' = (polled \/ Stored(BaseInfo) >= 3)
    /\ op' = name
    /\ kwargs' = NoArgs
    /\ sent' = <<Command("SyncBaseInfo", <<>>)>>
    /\ replies' = <<BaseInfo>>
    /\ raised' = FALSE
    /\ result' = NoResult
    /\ UNCHANGED <<config, timer>>

\* async_setup_platform, line 86: update_before_add=True makes the host call
\* async_update once before the entity is added.
async_update(BaseInfo) ==
    /\ op = "__init__"
    /\ Update("async_update", BaseInfo)

\* async_added_to_hass, lines 132-136.
async_added_to_hass ==
    /\ op = "async_update"
    /\ timer = "none"
    /\ timer' = "active"
    /\ op' = "async_added_to_hass"
    /\ kwargs' = NoArgs
    /\ sent' = <<>>
    /\ replies' = <<>>
    /\ raised' = FALSE
    /\ result' = NoResult
    /\ UNCHANGED <<config, cached, polled>>

\* async_schedule_update, lines 142-146: one tick of the interval timer.
async_schedule_update(BaseInfo) ==
    /\ timer = "active"
    /\ Update("async_schedule_update", BaseInfo)

\* async_will_remove_from_hass, lines 138-140.
async_will_remove_from_hass ==
    /\ timer = "active"
    /\ timer' = "cancelled"
    /\ op' = "async_will_remove_from_hass"
    /\ kwargs' = NoArgs
    /\ sent' = <<>>
    /\ replies' = <<>>
    /\ raised' = FALSE
    /\ result' = NoResult
    /\ UNCHANGED <<config, cached, polled>>

\* The host reads a property of the added entity (lines 220-239).
Read(name, value) ==
    /\ timer = "active"
    /\ op' = name
    /\ kwargs' = NoArgs
    /\ sent' = <<>>
    /\ replies' = <<>>
    /\ raised' = (value.exc # "")
    /\ result' = value
    /\ UNCHANGED <<config, cached, timer, polled>>

is_on == Read("is_on", Value(IF Truthy(_state) THEN 1 ELSE 0))

brightness ==
    Read("brightness", BrightnessOf(_brightness, _min_brightness, _max_brightness))

color_temp == Read("color_temp", Value(translate_mired(_color_temp)))

read_min_mireds ==
    Read("min_mireds",
         Value(min_mireds(_min_color_temperature, _max_color_temperature)))

read_max_mireds ==
    Read("max_mireds",
         Value(max_mireds(_min_color_temperature, _max_color_temperature)))

Next ==
    \/ \E BaseInfo \in BaseInfoReplies : async_update(BaseInfo)
    \/ async_added_to_hass
    \/ \E BaseInfo \in BaseInfoReplies : async_schedule_update(BaseInfo)
    \/ \E kw \in TurnOnArgs :
          \E r1 \in RepliesIf(TurnOnSendsSetState(_state)) :
             \E r2 \in RepliesIf(kw.brightness.type # "absent") :
                \E r3 \in RepliesIf(kw.color_temp.type # "absent") :
                   async_turn_on(kw, r1, r2, r3)
    \/ \E r1 \in RepliesIf(TurnOffSendsSetState(_state)) : async_turn_off(r1)
    \/ is_on
    \/ brightness
    \/ color_temp
    \/ read_min_mireds
    \/ read_max_mireds
    \/ async_will_remove_from_hass

Spec == Init /\ [][Next]_vars

-----------------------------------------------------------------------------
(* The range translator on its own: the inputs are drawn by the initial    *)
(* state, the actions apply the formulas of lines 178, 227 and 244.        *)

MaxBrightnessBound == 8

MaxNum == 40

BrightnessConfigs ==
    {Config(a, b, DefaultMinColorTemperature, DefaultMaxColorTemperature) :
        a \in 1..MaxBrightnessBound, b \in 1..MaxBrightnessBound}
    \cup {DefaultConfig,
          Config(1, 255, DefaultMinColorTemperature, DefaultMaxColorTemperature),
          Config(1, 300, DefaultMinColorTemperature, DefaultMaxColorTemperature),
          Config(20, 1000, DefaultMinColorTemperature, DefaultMaxColorTemperature)}

HostBrightness == HostMinBrightness..HostMaxBrightness

MiredInputs ==
    {PyNone, PyStr, PyBool(FALSE), PyBool(TRUE)}
        \cup {PyInt(n) : n \in 0..MaxNum}
        \cup {PyInt(n) : n \in {153, 200, 333, 999999, Million, Million + 1}}

TranslatorInit ==
    /\ \/ /\ \E cfg \in BrightnessConfigs : Constructed(cfg)
          /\ kwargs \in [brightness : {PyInt(h) : h \in HostBrightness},
                         color_temp : {Absent}]
       \/ /\ Constructed(DefaultConfig)
          /\ kwargs \in [brightness : {Absent}, color_temp : MiredInputs]
    /\ op = "input"
    /\ sent = <<>>
    /\ replies = <<>>

Apply(name, value) ==
    /\ op' = name
    /\ result' = value
    /\ UNCHANGED <<config, cached, timer, kwargs, sent, replies, raised, polled>>

\* Line 178 applied to the host brightness drawn.
EncodeBrightness ==
    /\ op = "input"
    /\ kwargs.brightness.type # "absent"
    /\ Apply("encode",
             Value(PercentBrightness(kwargs.brightness.val,
                                     _min_brightness, _max_brightness)))

\* Line 227 applied to the device value line 178 produced.
DecodeBrightness ==
    /\ op = "encode"
    /\ Apply("decode",
             BrightnessOf(PyInt(result.val), _min_brightness, _max_brightness))

\* Lines 241-246 applied to the input drawn.
TranslateMired ==
    /\ op = "input"
    /\ kwargs.color_temp.type # "absent"
    /\ Apply("translate_mired", Value(translate_mired(kwargs.color_temp)))

TranslatorNext == EncodeBrightness \/ DecodeBrightness \/ TranslateMired

TranslatorSpec == TranslatorInit /\ [][TranslatorNext]_vars

-----------------------------------------------------------------------------
(* Vocabulary of the properties *)

Failed(reply) == reply.raises \/ reply.res # <<"ok">>

IsCommandHandler(name) == name \in {"async_turn_on", "async_turn_off"}

IsPoll(name) == name \in {"async_update", "async_schedule_update"}

Methods(commands) == [i \in 1..Len(commands) |-> commands[i].method]

InDeviceRange(b) ==
    IsNumber(b) /\ _min_brightness <= b.val /\ b.val <= _max_brightness

\* q = floor(n / d) for d > 0, stated without division.
IsFloorOf(q, n, d) == q * d <= n /\ n < (q + 1) * d

-----------------------------------------------------------------------------
(* Properties *)

\* C1: in async_turn_on / async_turn_off, a command whose reply is not "ok",
\* or whose device call raised, leaves the cached field it would update
\* (_state, _brightness, _color_temp) at its previous value, and no exception
\* escapes the handler.
C1_FailedCommandKeepsCache ==
    [][IsCommandHandler(op') =>
          /\ ~raised'
          /\ \A i \in 1..Len(sent') :
                Failed(replies'[i]) =>
                   /\ sent'[i].method = "SetState" => _state' = _state
                   /\ sent'[i].method = "SetBrightness" => _brightness' = _brightness
                   /\ sent'[i].method = "SetColorTemperature" =>
                         _color_temp' = _color_temp]_vars

\* A turn_on whose SetBrightness was answered "error" and whose
\* SetColorTemperature raised, the polled values still cached.
C1_Witness ==
    /\ op = "async_turn_on"
    /\ Methods(sent) = <<"SetBrightness", "SetColorTemperature">>
    /\ replies = <<Reply(<<"error">>), DeviceError>>
    /\ kwargs.brightness = PyInt(255)
    /\ _brightness = PyInt(_max_brightness)
    /\ _color_temp = PyInt(_min_color_temperature)
    /\ ~raised

\* C2: after any polls (device reporting in range) and commands, the cached
\* device-native brightness lies within [min_brightness, max_brightness]
\* whenever it is set.
C2_CachedBrightnessInRange ==
    _brightness # PyNone => InDeviceRange(_brightness)

\* C3: after at least one successful poll, the brightness property reported
\* to the host is an integer in 1..255 (stated for min_brightness <
\* max_brightness; the equal case is C7's).
C3_ReportedBrightnessInHostRange ==
    (op = "brightness" /\ polled /\ _min_brightness < _max_brightness) =>
        /\ result.exc = ""
        /\ HostMinBrightness <= result.val
        /\ result.val <= HostMaxBrightness

\* C4 as claimed: with min_brightness < max_brightness, decoding the encoded
\* host brightness h yields a value within 1 of h.
C4_RoundTripWithinOne ==
    (op = "decode" /\ _min_brightness < _max_brightness) =>
        /\ result.exc = ""
        /\ result.val - kwargs.brightness.val <= 1
        /\ kwargs.brightness.val - result.val <= 1

\* C4 as amended: with min_brightness < max_brightness, decoding the encoded
\* host brightness h yields a value that is never below h and exceeds it by
\* at most ceil(254 / (max_brightness - min_brightness)).
C4_RoundTripWithinStep ==
    (op = "decode" /\ _min_brightness < _max_brightness) =>
        /\ result.exc = ""
        /\ result.val >= kwargs.brightness.val
        /\ result.val - kwargs.brightness.val
              <= CeilDiv(HostMaxBrightness - HostMinBrightness,
                         _max_brightness - _min_brightness)

\* The defaults 7 and 100: host brightness 4 is sent as 9 and read back as 7,
\* ceil(254 / 93) = 3 above.
C4_Witness ==
    /\ op = "decode"
    /\ _min_brightness = 7
    /\ _max_brightness = 100
    /\ kwargs.brightness = PyInt(4)
    /\ result = Value(7)

\* C5: translate_mired returns 153 for 0, None and non-numeric input and
\* floor(1000000 / value) for every positive integer; 1000000 gives 1 and
\* 200 gives 5000.
C5_TranslateMired ==
    op = "translate_mired" =>
        LET num == kwargs.color_temp
        IN  /\ result.exc = ""
            /\ (num = PyInt(0) \/ num = PyNone \/ num.type = "str") =>
                  result.val = 153
            /\ (num.type = "int" /\ num.val > 0) =>
                  IsFloorOf(result.val, 1000000, num.val)
            /\ num = PyInt(1000000) => result.val = 1
            /\ num = PyInt(200) => result.val = 5000

C5_Witness ==
    /\ op = "translate_mired"
    /\ kwargs.color_temp = PyInt(7)
    /\ result = Value(142857)

\* C6: host brightness 1 is sent as min_brightness, 255 as max_brightness,
\* and every host brightness in 1..255 as a value within
\* [min_brightness, max_brightness] (stated for min_brightness <=
\* max_brightness, when [min, max] is an interval).
C6_EncodeMapsEnds ==
    (op = "encode" /\ _min_brightness <= _max_brightness) =>
        /\ result.exc = ""
        /\ kwargs.brightness.val = 1 => result.val = _min_brightness
        /\ kwargs.brightness.val = 255 => result.val = _max_brightness
        /\ _min_brightness <= result.val
        /\ result.val <= _max_brightness

C6_Witness ==
    /\ op = "encode"
    /\ _min_brightness = 7
    /\ _max_brightness = 100
    /\ kwargs.brightness = PyInt(255)
    /\ result = Value(100)

\* C7: a configuration with min_brightness = max_brightness is rejected at
\* setup; no reachable state has the brightness property dividing by
\* max_brightness - min_brightness = 0.
C7_NoDivisionByZero ==
    ~(op = "brightness" /\ result.exc = "ZeroDivisionError")

\* C8: min_mireds is translate_mired(max_color_temperature), max_mireds is
\* translate_mired(min_color_temperature), min_mireds <= max_mireds for
\* positive min_color_temperature <= max_color_temperature, and no poll or
\* command changes either bound.
C8_MiredBounds ==
    /\ [](/\ op = "min_mireds" =>
                IsFloorOf(result.val, 1000000, _max_color_temperature)
          /\ op = "max_mireds" =>
                IsFloorOf(result.val, 1000000, _min_color_temperature)
          /\ (0 < _min_color_temperature
                /\ _min_color_temperature <= _max_color_temperature) =>
                min_mireds(_min_color_temperature, _max_color_temperature)
                   <= max_mireds(_min_color_temperature, _max_color_temperature))
    /\ [][/\ min_mireds(_min_color_temperature', _max_color_temperature')
               = min_mireds(_min_color_temperature, _max_color_temperature)
          /\ max_mireds(_min_color_temperature', _max_color_temperature')
               = max_mireds(_min_color_temperature, _max_color_temperature)]_vars

\* min_mireds read as 175 = floor(1000000 / 5700) after a poll and a command.
C8_Witness ==
    /\ op = "min_mireds"
    /\ result = Value(175)
    /\ _max_color_temperature = 5700
    /\ polled
    /\ _color_temp = PyInt(5000)

\* C9: a poll whose fetch fails (the device call raises, or the SyncBaseInfo
\* reply has fewer than three elements) leaves _state, _brightness and
\* _color_temp at their previous values, lets no exception escape, and
\* leaves the timer running.
C9_FailedPollKeepsCache ==
    [][(IsPoll(op') /\ (replies'[1].raises \/ Len(replies'[1].res) < 3)) =>
          /\ cached' = cached
          /\ ~raised'
          /\ timer' = timer]_vars

\* C10: async_turn_on sends SetState[True] iff the cached state is not on,
\* async_turn_off sends SetState[False] iff it is on, and async_turn_on sends
\* SetState, SetBrightness, SetColorTemperature in this order, each of the
\* last two iff its argument was passed, whatever the earlier replies were.
C10_CommandEmission ==
    [][/\ op' = "async_turn_on" =>
             sent' = (IF _state # PyBool(TRUE)
                      THEN <<Command("SetState", <<PyBool(TRUE)>>)>> ELSE <<>>)
                  \o (IF kwargs'.brightness # Absent
                      THEN <<Command("SetBrightness",
                                <<PyInt(PercentBrightness(kwargs'.brightness.val,
                                     _min_brightness, _max_brightness))>>)>>
                      ELSE <<>>)
                  \o (IF kwargs'.color_temp # Absent
                      THEN <<Command("SetColorTemperature",
                                <<PyInt(translate_mired(kwargs'.color_temp))>>)>>
                      ELSE <<>>)
       /\ op' = "async_turn_off" =>
             sent' = IF _state = PyBool(TRUE)
                     THEN <<Command("SetState", <<PyBool(FALSE)>>)>> ELSE <<>>]_vars

\* All three commands sent although the first two failed.
C10_Witness ==
    /\ op = "async_turn_on"
    /\ Methods(sent) = <<"SetState", "SetBrightness", "SetColorTemperature">>
    /\ replies[1] = Reply(<<"error">>)
    /\ replies[2] = DeviceError
    /\ replies[3] = Reply(<<"ok">>)

====
